---- MODULE Spec2Model ----
(***************************************************************************)
(* A model of depq.DEPQ (src/depq/depq.py): a double-ended priority queue  *)
(* kept in a deque of (item, priority) tuples, sorted by descending        *)
(* priority, with a dict of item frequencies beside it.                    *)
(*                                                                         *)
(* Every public method is one action that models the whole method body.    *)
(* Items are denoted by their Python literals: "None" is the object None,  *)
(* "'[1]'" is the str object '[1]' and "[1]" is the list [1], an           *)
(* unhashable item whose repr() is the str object '[1]'.                   *)
(***************************************************************************)
EXTENDS Integers, Sequences, FiniteSets, TLC

\* ------------------------------------------------------------------ bounds
MaxLen == 3        \* additions are explored while len(data) < MaxLen
MaxCount == 2      \* remove() counts are drawn from -2..MaxCount
MaxFreq == 3       \* a frequency stored in the index is explored up to MaxFreq

\* The methods only compare priorities with <, <=, > and >=: a low and a high
\* value give every outcome of every comparison.
Priorities == {0, 1}

\* count == -1 removes every occurrence; -2 stands for the other negative
\* counts.
Counts == -2 .. MaxCount

\* The methods that add an entry, take entries out, and read an end.
Adds == {"insert", "addfirst", "addlast"}

Removals == {"popfirst", "poplast", "remove", "elim", "clear"}

Peeks == {"first", "last", "high", "low"}

\* The largest max_length a DEPQ is configured with.
MaxLength == 2

\* The entries added to a DEPQ with max_length and not explicitly removed
\* are followed up to MaxKept of them.
MaxKept == 4

\* The rotating search of insert is followed on DEPQs of up to MaxSearchLen
\* entries with the priorities 0 .. MaxSearchPri.
MaxSearchLen == 6

MaxSearchPri == 3

\* The threads that call the methods of one DEPQ at the same time.
NumThreads == 2

Items == {"None", "'[1]'", "[1]"}

\* The indices d[index] is read at: every index of a full DEPQ and one
\* beyond, from either end.
Indices == (0 - MaxLen - 1) .. MaxLen

\* ------------------------------------------------------------- the state
VARIABLES
    data,    \* self.data : the deque, index 1 is Python index 0
    items,   \* self.items: the frequency dict, a function on its present keys
    start,   \* self.start
    call,    \* the last call made: the method, what it returned or raised
    lock,    \* self.lock : Free, or the thread that holds it
    thr,     \* the calling threads: the call each is in and where it stands
    maxlen,  \* the max_length the DEPQ is configured with, NoMaxLen without
    kept,    \* the entries added and not explicitly removed: the bag of their
             \* priorities under max_length, their items in the order of
             \* addition in the FIFO / LIFO use
    snap     \* the snapshot a caller got from to_json or __getstate__ and holds

vars == <<data, items, start, call, lock, thr, maxlen, kept, snap>>

\* The lock when no thread holds it.
Free == 0

\* A DEPQ without max_length.
NoMaxLen == -1

\* A call by a single caller on a DEPQ without max_length: `with self.lock`
\* takes the free lock and gives it back within the step, and no other
\* thread is there to move.
OneCaller == UNCHANGED <<lock, thr, maxlen, kept, snap>>

\* An entry of data is the tuple (item, priority).
Entry(item, pri) == [item |-> item, pri |-> pri]

\* The tuple (item, priority) the program stores and returns.
Pair(e) == <<e.item, e.pri>>

Pairs(d) == [i \in 1 .. Len(d) |-> Pair(d[i])]

\* ------------------------------------------------------ hashing and repr()
\* hash(item) succeeds: None and str are hashable, a list is not.
Hashable(item) == item # "[1]"

\* repr(item) of an unhashable item, as a str object.
Repr(item) == "'" \o item \o "'"

\* The key under which the dict operations reach item: item itself, or
\* repr(item) after the TypeError of an unhashable item.
Key(item) == IF Hashable(item) THEN item ELSE Repr(item)

Keys == {Key(i) : i \in Items}

\* ------------------------------------------------------------ deque.rotate
\* deque.rotate(k): k steps to the right (the last k entries move to the
\* front); a negative k rotates to the left.
Rotate(d, k) ==
    IF Len(d) = 0 THEN d
    ELSE LET n == Len(d)
             r == k % n
         IN [i \in 1 .. n |-> d[((i - 1 - r) % n) + 1]]

\* ------------------------------------------------------------- dict steps
\* self.items[key] += 1, with KeyError -> self.items[key] = 1
Incr(f, key) ==
    IF key \in DOMAIN f
    THEN [f EXCEPT ![key] = @ + 1]
    ELSE [k \in DOMAIN f \cup {key} |-> IF k = key THEN 1 ELSE f[k]]

\* self.items[key] = 1
SetOne(f, key) == [k \in DOMAIN f \cup {key} |-> IF k = key THEN 1 ELSE f[k]]

\* del self.items[key]
Del(f, key) == [k \in DOMAIN f \ {key} |-> f[k]]

\* self.items[key] -= 1; if self.items[key] == 0: del self.items[key]
Decr(f, key) ==
    IF f[key] - 1 = 0 THEN Del(f, key) ELSE [f EXCEPT ![key] = @ - 1]

EmptyDict == [k \in {} |-> 0]

\* ---------------------------------------------------------- the last call
\* What the caller of the last method got back: the method's name, the branch
\* it took (insert, addfirst, addlast, remove), the exception it raised
\* ("none" when it returned),
\* and the value returned: ret is a returned tuple or list of tuples, val a
\* returned item, pri a returned priority.
NoItem == "-"

NoPri == -1

Call(op, path, err, ret, val, pri) ==
    [op |-> op, path |-> path, err |-> err, ret |-> ret, val |-> val, pri |-> pri]

\* A call that returned None.
Returned(op, path) == Call(op, path, "none", <<>>, NoItem, NoPri)

\* A call that raised an exception.
Raised(op, err) == Call(op, "", err, <<>>, NoItem, NoPri)

\* ----------------------------------------------------------------- insert
\* A variant of InsertFront that also takes the front on an equal priority.
InsertFrontOrEqual(priority, d) == priority >= d[1].pri

\* insert takes the front when priority > self.data[0][1]
InsertFront(priority, d) == priority > d[1].pri

\* and the back when priority <= self.data[-1][1]
InsertBack(priority, d) == priority <= d[Len(d)].pri

\* A variant of NextMid that lets mid go down to 0.
NextMidNoFloor(mid) == mid \div 2

\* mid //= 2; if mid == 0: mid += 1
NextMid(mid) == IF mid \div 2 = 0 THEN (mid \div 2) + 1 ELSE mid \div 2

\* A variant of ReturnRotate that rotates away from the original position.
ReturnRotateWrongWay(d, shift, length) ==
    IF shift > length \div 2
    THEN Rotate(d, (length % shift) + 1)
    ELSE Rotate(d, -shift)

\* The rotation back to the original position after appendleft, on the
\* deque d that already holds the new entry.
ReturnRotate(d, shift, length) ==
    IF shift > length \div 2
    THEN Rotate(d, -((length % shift) + 1))
    ELSE Rotate(d, shift)

\* The loop test that ends the search.
Found(d, priority) == d[Len(d)].pri >= priority /\ priority > d[1].pri

\* The `while True` loop of insert: one call is one iteration.
RECURSIVE RotSearch(_, _, _, _, _)
RotSearch(d, e, mid, shift, length) ==
    LET left == e.pri <= d[1].pri
        d1 == IF left THEN Rotate(d, -mid) ELSE Rotate(d, mid)
        s1 == IF left THEN shift + mid ELSE shift - mid
    IN IF Found(d1, e.pri)
       THEN ReturnRotate(<<e>> \o d1, s1, length)
       ELSE RotSearch(d1, e, NextMid(mid), s1, length)

\* The branch insert takes.
InsertPath(d, priority) ==
    IF Len(d) = 0 THEN "empty"
    ELSE IF InsertFront(priority, d) THEN "front"
    ELSE IF InsertBack(priority, d) THEN "back"
    ELSE "search"

\* The deque after insert's three non-empty paths.
InsertData(d, e) ==
    IF InsertFront(e.pri, d) THEN <<e>> \o d
    ELSE IF InsertBack(e.pri, d) THEN Append(d, e)
    ELSE RotSearch(d, e, Len(d) \div 2, 0, Len(d))

insert(item, priority) ==
    LET e == Entry(item, priority) IN
    /\ Len(data) < MaxLen
    /\ IF Len(data) = 0
       THEN \* IndexError: append, self.items[key] = 1
            /\ data' = <<e>>
            /\ items' = SetOne(items, Key(item))
       ELSE /\ data' = InsertData(data, e)
            /\ items' = Incr(items, Key(item))
    /\ items'[Key(item)] <= MaxFreq
    /\ call' = Returned("insert", InsertPath(data, priority))
    /\ UNCHANGED start /\ OneCaller

\* --------------------------------------------------- addfirst / addlast
\* A variant of AddfirstViolates that compares with the lowest priority.
AddfirstViolatesLowest(new_priority, d) == new_priority < d[Len(d)].pri

\* addfirst raises ValueError when new_priority < self.data[0][1]
AddfirstViolates(new_priority, d) == new_priority < d[1].pri

\* addlast raises ValueError when new_priority > self.data[-1][1]
AddlastViolates(new_priority, d) == new_priority > d[Len(d)].pri

\* self.data.appendleft((item, priority))
AppendLeft(d, e) == <<e>> \o d

\* A variant of AppendRight that appends at the left end.
AppendRightAtLeft(d, e) == <<e>> \o d

\* self.data.append((item, priority))
AppendRight(d, e) == Append(d, e)

\* A variant of AddfirstDefault that takes self.start on a non-empty deque too.
AddfirstDefaultStart(d, st) == st

\* The priority addfirst stores when new_priority is None.
AddfirstDefault(d, st) == IF Len(d) = 0 THEN st ELSE d[1].pri

\* The priority addlast stores when new_priority is None.
AddlastDefault(d, st) == IF Len(d) = 0 THEN st ELSE d[Len(d)].pri

\* addfirst(item): new_priority is None.
addfirstNone(item) ==
    LET e == Entry(item, AddfirstDefault(data, start)) IN
    /\ Len(data) < MaxLen
    /\ data' = AppendLeft(data, e)
    /\ items' = Incr(items, Key(item))
    /\ items'[Key(item)] <= MaxFreq
    /\ call' = Returned("addfirst", "default")
    /\ UNCHANGED start /\ OneCaller

\* addfirst(item, new_priority)
addfirst(item, new_priority) ==
    LET e == Entry(item, new_priority) IN
    /\ IF Len(data) > 0 /\ AddfirstViolates(new_priority, data)
       THEN /\ call' = Raised("addfirst", "ValueError")
            /\ UNCHANGED <<data, items>>
       ELSE /\ Len(data) < MaxLen
            /\ data' = AppendLeft(data, e)
            /\ items' = Incr(items, Key(item))
            /\ items'[Key(item)] <= MaxFreq
            /\ call' = Returned("addfirst", "given")
    /\ UNCHANGED start /\ OneCaller

\* addlast(item): new_priority is None.
addlastNone(item) ==
    LET e == Entry(item, AddlastDefault(data, start)) IN
    /\ Len(data) < MaxLen
    /\ data' = AppendRight(data, e)
    /\ items' = Incr(items, Key(item))
    /\ items'[Key(item)] <= MaxFreq
    /\ call' = Returned("addlast", "default")
    /\ UNCHANGED start /\ OneCaller

\* addlast(item, new_priority)
addlast(item, new_priority) ==
    LET e == Entry(item, new_priority) IN
    /\ IF Len(data) > 0 /\ AddlastViolates(new_priority, data)
       THEN /\ call' = Raised("addlast", "ValueError")
            /\ UNCHANGED <<data, items>>
       ELSE /\ Len(data) < MaxLen
            /\ data' = AppendRight(data, e)
            /\ items' = Incr(items, Key(item))
            /\ items'[Key(item)] <= MaxFreq
            /\ call' = Returned("addlast", "given")
    /\ UNCHANGED start /\ OneCaller

\* ------------------------------------------------------ popfirst / poplast
\* The entry self.data.popleft() takes.
PopLeftIndex(d) == 1

\* The entry self.data.pop() takes.
PopRightIndex(d) == Len(d)

\* The deque without the entry at index k.
Without(d, k) == [i \in 1 .. Len(d) - 1 |-> IF i < k THEN d[i] ELSE d[i + 1]]

\* A variant of Pop that returns None on an empty deque.
PopQuietOnEmpty(op, k) ==
    IF Len(data) = 0
    THEN /\ call' = Returned(op, "")
         /\ UNCHANGED <<data, items>>
    ELSE LET tup == data[k] IN
         /\ data' = Without(data, k)
         /\ IF Key(tup.item) \in DOMAIN items
            THEN /\ items' = Decr(items, Key(tup.item))
                 /\ call' = Call(op, "", "none", <<Pair(tup)>>, NoItem, NoPri)
            ELSE /\ items' = items
                 /\ call' = Raised(op, "KeyError")

\* The body shared by popfirst and poplast, taking the entry at index k:
\* IndexError on an empty deque; KeyError, after the entry has left the deque,
\* when the index holds no key for it.
Pop(op, k) ==
    IF Len(data) = 0
    THEN /\ call' = Raised(op, "IndexError")
         /\ UNCHANGED <<data, items>>
    ELSE LET tup == data[k] IN
         /\ data' = Without(data, k)
         /\ IF Key(tup.item) \in DOMAIN items
            THEN /\ items' = Decr(items, Key(tup.item))
                 /\ call' = Call(op, "", "none", <<Pair(tup)>>, NoItem, NoPri)
            ELSE /\ items' = items
                 /\ call' = Raised(op, "KeyError")

popfirst == Pop("popfirst", PopLeftIndex(data)) /\ UNCHANGED start /\ OneCaller

poplast == Pop("poplast", PopRightIndex(data)) /\ UNCHANGED start /\ OneCaller

\* -------------------------------------------------- first/last/high/low
\* self.data[0] and self.data[-1]
Front(d) == d[1]

Back(d) == d[Len(d)]

\* first() and last() return the item.
PeekItem(op, e) ==
    /\ call' = (IF Len(data) = 0
                THEN Raised(op, "IndexError")
                ELSE Call(op, "", "none", <<>>, e.item, NoPri))
    /\ UNCHANGED <<data, items, start>> /\ OneCaller

\* high() and low() return the priority.
PeekPri(op, e) ==
    /\ call' = (IF Len(data) = 0
                THEN Raised(op, "IndexError")
                ELSE Call(op, "", "none", <<>>, NoItem, e.pri))
    /\ UNCHANGED <<data, items, start>> /\ OneCaller

first == PeekItem("first", Front(data))

last == PeekItem("last", Back(data))

high == PeekPri("high", Front(data))

low == PeekPri("low", Back(data))

\* ------------------------------------------------------------------ clear
clear ==
    /\ data' = <<>>
    /\ items' = EmptyDict
    /\ call' = Returned("clear", "")
    /\ UNCHANGED start /\ OneCaller

\* ------------------------------------------------------------------ count
\* count(item): the stored frequency, 0 on KeyError.
count(f, item) == IF Key(item) \in DOMAIN f THEN f[Key(item)] ELSE 0

\* ----------------------------------------------------------- __contains__
\* item in d: `item in self.items`, `repr(item) in self.items` on TypeError.
contains(f, item) == Key(item) \in DOMAIN f

\* ----------------------------------------------------------- remove / elim
\* item == self.data[-1][0]: None, the str '[1]' and the list [1] are
\* pairwise unequal.
ItemEq(a, b) == a = b

\* if count == -1: count = item_freq
EffectiveCount(cnt, item_freq) == IF cnt = -1 THEN item_freq ELSE cnt

\* The test that pops the entry at the back in remove's loop.
Takes(cnt, counter, item, d) == cnt > counter /\ ItemEq(item, d[Len(d)].item)

\* `for i in range(len(self.data))`: one call is one iteration, iters are left.
RECURSIVE RemoveLoop(_, _, _, _, _, _)
RemoveLoop(d, item, cnt, counter, removed, iters) ==
    IF iters = 0 THEN [data |-> d, removed |-> removed]
    ELSE IF Takes(cnt, counter, item, d)
         THEN RemoveLoop(SubSeq(d, 1, Len(d) - 1), item, cnt, counter + 1,
                         Append(removed, Pair(d[Len(d)])), iters - 1)
         ELSE RemoveLoop(Rotate(d, 1), item, cnt, counter, removed, iters - 1)

\* if item_freq <= count: del self.items[item_repr]
\* else: self.items[item_repr] -= count
RemoveIndex(f, key, item_freq, cnt) ==
    IF item_freq <= cnt THEN Del(f, key) ELSE [f EXCEPT ![key] = @ - cnt]

\* What remove(item, count) does to the deque d and the index f for an integer
\* count, and the list it returns.
RemoveOutcome(d, f, item, cnt) ==
    IF Key(item) \notin DOMAIN f
    THEN \* KeyError: return removed
         [data |-> d, items |-> f, removed |-> <<>>, path |-> "absent"]
    ELSE LET item_freq == f[Key(item)]
             c == EffectiveCount(cnt, item_freq)
             r == RemoveLoop(d, item, c, 0, <<>>, Len(d))
         IN [data |-> r.data, items |-> RemoveIndex(f, Key(item), item_freq, c),
             removed |-> r.removed, path |-> "scan"]

\* The body of remove; op is the public method that was called.
RemoveBody(op, item, cnt) ==
    LET o == RemoveOutcome(data, items, item, cnt) IN
    /\ data' = o.data
    /\ items' = o.items
    /\ \A k \in DOMAIN items' : items'[k] <= MaxFreq
    /\ call' = Call(op, o.path, "none", o.removed, NoItem, NoPri)
    /\ UNCHANGED start /\ OneCaller

remove(item, cnt) == RemoveBody("remove", item, cnt)

\* elim(item): return self.remove(item, -1)
elim(item) == RemoveBody("elim", item, -1)

\* ------------------------------------------------------------- int(count)
\* Objects other than an int that a caller passes as count, by their Python
\* literals: the str '1', the float 2.5, the str 'a' and None.
CountObjects == {"'1'", "2.5", "'a'", "None"}

\* A variant of IntError that lets None pass.
IntErrorNoneConverts(cnt) == IF cnt = "'a'" THEN "ValueError" ELSE "none"

\* The exception int(count) raises: ValueError for a str that is no number,
\* TypeError for None, "none" when it converts.
IntError(cnt) ==
    IF cnt = "'a'" THEN "ValueError"
    ELSE IF cnt = "None" THEN "TypeError"
    ELSE "none"

\* int(count): int('1') is 1, int(2.5) truncates to 2.
IntValue(cnt) == IF cnt = "'1'" THEN 1 ELSE IF cnt = "2.5" THEN 2 ELSE 0

\* remove(item, count) with a count that is no int: the conversion comes
\* first and its exception leaves the method before anything is read.
removeNonInt(item, cnt) ==
    IF IntError(cnt) # "none"
    THEN /\ call' = Raised("remove", IntError(cnt))
         /\ UNCHANGED <<data, items, start>> /\ OneCaller
    ELSE RemoveBody("remove", item, IntValue(cnt))

\* ------------------------------------------------------------ __getitem__
\* A variant of IndexInRange that takes no negative index.
IndexInRangeFromZero(d, index) == 0 <= index /\ index < Len(d)

\* self.data[index] raises IndexError unless -len <= index < len.
IndexInRange(d, index) == 0 - Len(d) <= index /\ index < Len(d)

\* The position self.data[index] reads: a negative index counts from the
\* end.
DequeIndex(d, index) == IF index >= 0 THEN index + 1 ELSE Len(d) + index + 1

getitem(index) ==
    /\ call' = (IF IndexInRange(data, index)
                THEN Call("__getitem__", "", "none",
                          <<Pair(data[DequeIndex(data, index)])>>, NoItem, NoPri)
                ELSE Raised("__getitem__", "IndexError"))
    /\ UNCHANGED <<data, items, start>> /\ OneCaller

\* ------------------------------------------------------------ __delitem__
\* A variant of delitem that deletes the entry at an index in range, the way
\* a list does.
delitemDeletes(index) ==
    /\ IF IndexInRange(data, index)
       THEN /\ data' = Without(data, DequeIndex(data, index))
            /\ call' = Returned("__delitem__", "")
       ELSE /\ data' = data
            /\ call' = Raised("__delitem__", "IndexError")
    /\ UNCHANGED <<items, start>> /\ OneCaller

\* del d[index]: raise NotImplementedError, whatever the index.
delitem(index) ==
    /\ call' = Raised("__delitem__", "NotImplementedError")
    /\ UNCHANGED <<data, items, start>> /\ OneCaller

\* ------------------------------------------------------------ __setitem__
\* A variant of SetItemData that assigns the way a dict does: an entry of the
\* item that is there already is taken out before the new one goes in.
SetItemDataReplaces(d, item, priority) ==
    LET others == SelectSeq(d, LAMBDA x : x.item # item)
        e == Entry(item, priority)
    IN IF Len(others) = 0 THEN <<e>> ELSE InsertData(others, e)

\* The deque after d[item] = priority, which is self.insert(item, priority).
SetItemData(d, item, priority) ==
    LET e == Entry(item, priority)
    IN IF Len(d) = 0 THEN <<e>> ELSE InsertData(d, e)

\* d[item] = priority
setitem(item, priority) ==
    /\ Len(data) < MaxLen
    /\ data' = SetItemData(data, item, priority)
    /\ items' = (IF Len(data) = 0 THEN SetOne(items, Key(item))
                                  ELSE Incr(items, Key(item)))
    /\ items'[Key(item)] <= MaxFreq
    /\ call' = Returned("__setitem__", InsertPath(data, priority))
    /\ UNCHANGED start /\ OneCaller

\* -------------------------------------------------------------- snapshots
\* The instance dict without its lock: what to_json and __getstate__ return
\* and what from_json and __setstate__ put into a new DEPQ.
State(d, f, st) == [data |-> d, items |-> f, start |-> st]

\* json.dumps of an item or of a dict key, as JSON text.  A key that is None
\* is written as the JSON string "null", as is the str 'null'.
JsonItem(item) ==
    IF item = "None" THEN "null"
    ELSE IF item = "[1]" THEN "[1]"
    ELSE "\"[1]\""

JsonKey(key) == IF key = "None" THEN "\"null\"" ELSE "\"[1]\""

\* json.loads of the text of an item or a key: a JSON string is a str, null
\* is None and an array a list.
LoadItem(text) ==
    IF text = "null" THEN "None"
    ELSE IF text = "[1]" THEN "[1]"
    ELSE IF text = "\"null\"" THEN "'null'"
    ELSE "'[1]'"

\* json.dumps(state): the pairs as arrays, the dict as an object whose member
\* names are the dumped keys.
JsonDumps(state) ==
    [data |-> [j \in 1 .. Len(state.data) |->
                  <<JsonItem(state.data[j].item), state.data[j].pri>>],
     items |-> [t \in {JsonKey(k) : k \in DOMAIN state.items} |->
                  state.items[CHOOSE k \in DOMAIN state.items : JsonKey(k) = t]],
     start |-> state.start]

\* from_json(json_str): json.loads, then the pairs as tuples in a deque.
FromJson(text) ==
    State([j \in 1 .. Len(text.data) |->
              Entry(LoadItem(text.data[j][1]), text.data[j][2])],
          [k \in {LoadItem(t) : t \in DOMAIN text.items} |->
              text.items[CHOOSE t \in DOMAIN text.items : LoadItem(t) = k]],
          text.start)

\* to_json() returns the state with data as a list.
to_json ==
    /\ call' = Call("to_json", "", "none", <<State(data, items, start)>>, NoItem, NoPri)
    /\ UNCHANGED <<data, items, start>> /\ OneCaller

\* DEPQ.from_json(json.dumps(state)) on the state to_json has just returned:
\* it returns a new DEPQ.
from_json ==
    /\ call.op = "to_json"
    /\ call' = Call("from_json", "", "none", <<FromJson(JsonDumps(call.ret[1]))>>,
                    NoItem, NoPri)
    /\ UNCHANGED <<data, items, start>> /\ OneCaller

\* __getstate__() returns the state.
getstate ==
    /\ call' = Call("__getstate__", "", "none", <<State(data, items, start)>>,
                    NoItem, NoPri)
    /\ UNCHANGED <<data, items, start>> /\ OneCaller

\* __setstate__(state) on a new DEPQ, with the state __getstate__ has just
\* returned, as pickle.loads(pickle.dumps(d)) calls it.
setstate ==
    /\ call.op = "__getstate__"
    /\ call' = Call("__setstate__", "", "none",
                    <<State(call.ret[1].data, call.ret[1].items, call.ret[1].start)>>,
                    NoItem, NoPri)
    /\ UNCHANGED <<data, items, start>> /\ OneCaller

\* ================================================================ threads
\* Several threads call the methods of one DEPQ.  A thread switch can come
\* between any two statements of a method, so a method is a sequence of
\* steps: each step is one statement on self.data or self.items (one
\* iteration for the loops), and the steps of different threads interleave.
\* `with self.lock` blocks while another thread holds the lock.
Threads == 1 .. NumThreads

\* The threads use one item.
ThreadItem == "None"

\* A call: the method, its item, its number (priority, count or index) and,
\* for a count that is no int, the object passed.
TCall(op, item, num, obj) == [op |-> op, item |-> item, num |-> num, obj |-> obj]

NoCall == TCall("-", NoItem, 0, "")

\* The methods whose body is inside `with self.lock`.
LockedCalls ==
    {TCall(op, ThreadItem, p, "") :
        op \in {"insert", "addfirst", "addlast"}, p \in Priorities}
    \cup {TCall(op, NoItem, 0, "") :
        op \in {"popfirst", "poplast", "first", "last", "high", "low", "clear"}}
    \cup {TCall("remove", ThreadItem, c, "") : c \in {-1, 1, MaxCount}}
    \cup {TCall("remove", ThreadItem, 0, "'a'")}
    \cup {TCall("__getitem__", NoItem, i, "") : i \in {0, MaxLen}}

\* The methods that never touch the lock.
UnlockedCalls ==
    {TCall(op, NoItem, 0, "") : op \in {"size", "__len__", "is_empty"}}
    \cup {TCall(op, ThreadItem, 0, "") : op \in {"count", "__contains__"}}

NoEntry == Entry(NoItem, NoPri)

NoState == State(<<>>, EmptyDict, 0)

\* The local variables of a call in progress, under their names in the
\* methods (i: the iterations remove's loop has left); pre is the state the
\* call found when it took the lock.
NoLoc ==
    [pre |-> NoState, mid |-> 0, shift |-> 0, length |-> 0, cnt |-> 0,
     item_freq |-> 0, counter |-> 0, i |-> 0, removed |-> <<>>,
     tup |-> NoEntry]

NoRet == Returned("-", "")

\* A thread: where it stands (pc), its call, its locals and what its last
\* call returned or raised.
Thread(pc, c, loc, ret) == [pc |-> pc, call |-> c, loc |-> loc, ret |-> ret]

Idle == Thread("idle", NoCall, NoLoc, NoRet)

\* Thread t stands at pc inside method op, holding the lock.
At(t, pc, ops) == thr[t].pc = pc /\ thr[t].call.op \in ops /\ lock = t

\* Thread t moves on inside its method.
Goto(t, pc, loc) ==
    /\ thr' = [thr EXCEPT ![t] = Thread(pc, @.call, loc, NoRet)]
    /\ UNCHANGED lock

\* A variant of LockAfter that keeps the lock when the block is left by an
\* exception.
LockAfterReturnOnly(t, err) == IF err = "none" THEN Free ELSE t

\* The lock after thread t has left `with self.lock`: the with statement
\* releases it on return and on exception alike.
LockAfter(t, err) == Free

\* Thread t leaves `with self.lock` and its method with the result ret.
Exit(t, ret) ==
    /\ lock' = LockAfter(t, ret.err)
    /\ thr' = [thr EXCEPT ![t] = Thread("done", @.call, NoLoc, ret)]

\* The entries the calls in progress may still add.
PendingAdds ==
    Cardinality({t \in Threads :
        thr[t].call.op \in Adds /\ thr[t].pc \in {"wait", "body", "search", "test"}})

\* Thread t calls a method that takes the lock and reaches `with self.lock`.
Invoke(t) ==
    /\ thr[t].pc = "idle"
    /\ \E c \in LockedCalls :
          /\ c.op \in Adds => Len(data) + PendingAdds < MaxLen
          /\ thr' = [thr EXCEPT ![t] = Thread("wait", c, NoLoc, NoRet)]
    /\ UNCHANGED <<data, items, start, call, lock, maxlen, kept, snap>>

\* A variant of LockIsFree that lets every thread in.
LockIsAlwaysFree(l) == TRUE

\* Lock.acquire succeeds only on a free lock.
LockIsFree(l) == l = Free

\* `with self.lock:` thread t takes the lock.
Acquire(t) ==
    /\ thr[t].pc = "wait"
    /\ LockIsFree(lock)
    /\ lock' = t
    /\ thr' = [thr EXCEPT ![t] = Thread("body", @.call,
                   [NoLoc EXCEPT !.pre = State(data, items, start)], NoRet)]
    /\ UNCHANGED <<data, items, start, call, maxlen, kept, snap>>

\* ------------------------------------------------- insert, step by step
\* The first statements of insert: the IndexError of an empty deque leads to
\* the handler's append; the front and back tests lead to appendleft and
\* append; otherwise the search starts.
InsertStep(t) ==
    /\ At(t, "body", {"insert"})
    /\ LET c == thr[t].call
           e == Entry(c.item, c.num)
           loc == thr[t].loc
       IN IF Len(data) = 0
          THEN data' = AppendRight(data, e) /\ Goto(t, "set", loc)
          ELSE IF InsertFront(c.num, data)
          THEN data' = AppendLeft(data, e) /\ Goto(t, "index", loc)
          ELSE IF InsertBack(c.num, data)
          THEN data' = AppendRight(data, e) /\ Goto(t, "index", loc)
          ELSE /\ data' = data
               /\ Goto(t, "search", [loc EXCEPT !.length = Len(data),
                                                !.mid = Len(data) \div 2,
                                                !.shift = 0])
    /\ UNCHANGED <<items, start, call, maxlen, kept, snap>>

\* insert's `while True`, first half of an iteration: the rotation by mid
\* towards the place of the priority, with shift and mid brought up to date.
\* An empty deque raises the IndexError that insert's handler answers with
\* append.
SearchRotate(t) ==
    /\ At(t, "search", {"insert"})
    /\ LET c == thr[t].call
           loc == thr[t].loc
       IN IF Len(data) = 0
          THEN data' = AppendRight(data, Entry(c.item, c.num)) /\ Goto(t, "set", loc)
          ELSE LET left == c.num <= data[1].pri IN
               /\ data' = (IF left THEN Rotate(data, 0 - loc.mid)
                                   ELSE Rotate(data, loc.mid))
               /\ Goto(t, "test",
                       [loc EXCEPT !.shift = IF left THEN @ + loc.mid ELSE @ - loc.mid,
                                   !.mid = NextMid(@)])
    /\ UNCHANGED <<items, start, call, maxlen, kept, snap>>

\* Second half: the test that ends the search, and appendleft when it holds.
SearchTest(t) ==
    /\ At(t, "test", {"insert"})
    /\ LET c == thr[t].call
           e == Entry(c.item, c.num)
           loc == thr[t].loc
       IN IF Len(data) = 0
          THEN data' = AppendRight(data, e) /\ Goto(t, "set", loc)
          ELSE IF Found(data, c.num)
          THEN data' = AppendLeft(data, e) /\ Goto(t, "return", loc)
          ELSE data' = data /\ Goto(t, "search", loc)
    /\ UNCHANGED <<items, start, call, maxlen, kept, snap>>

\* The rotation back to the original position, and `break`.
SearchReturn(t) ==
    /\ At(t, "return", {"insert"})
    /\ data' = ReturnRotate(data, thr[t].loc.shift, thr[t].loc.length)
    /\ Goto(t, "index", thr[t].loc)
    /\ UNCHANGED <<items, start, call, maxlen, kept, snap>>

\* The index update that ends insert, addfirst and addlast, and the end of
\* the method: self.items[key] += 1 (or = 1), and self.items[key] = 1 in
\* insert's IndexError handler.
IndexStep(t) ==
    /\ \/ At(t, "index", Adds) /\ items' = Incr(items, Key(thr[t].call.item))
       \/ At(t, "set", Adds) /\ items' = SetOne(items, Key(thr[t].call.item))
    /\ Exit(t, Returned(thr[t].call.op, ""))
    /\ UNCHANGED <<data, start, call, maxlen, kept, snap>>

\* ------------------------------------- addfirst and addlast, step by step
\* The priority test and appendleft / append.
AddStep(t) ==
    /\ At(t, "body", {"addfirst", "addlast"})
    /\ LET c == thr[t].call
           e == Entry(c.item, c.num)
           violates == IF c.op = "addfirst" THEN AddfirstViolates(c.num, data)
                                            ELSE AddlastViolates(c.num, data)
       IN IF Len(data) > 0 /\ violates
          THEN data' = data /\ Exit(t, Raised(c.op, "ValueError"))
          ELSE /\ data' = (IF c.op = "addfirst" THEN AppendLeft(data, e)
                                                ELSE AppendRight(data, e))
               /\ Goto(t, "index", thr[t].loc)
    /\ UNCHANGED <<items, start, call, maxlen, kept, snap>>

\* -------------------------------------- popfirst and poplast, step by step
\* tup = self.data.popleft() / self.data.pop()
PopStep(t) ==
    /\ At(t, "body", {"popfirst", "poplast"})
    /\ LET op == thr[t].call.op
           k == IF op = "popfirst" THEN PopLeftIndex(data) ELSE PopRightIndex(data)
       IN IF Len(data) = 0
          THEN data' = data /\ Exit(t, Raised(op, "IndexError"))
          ELSE /\ data' = Without(data, k)
               /\ Goto(t, "decr", [thr[t].loc EXCEPT !.tup = data[k]])
    /\ UNCHANGED <<items, start, call, maxlen, kept, snap>>

\* self.items[tup[0]] -= 1, the del at 0, and return tup.
PopIndexStep(t) ==
    /\ At(t, "decr", {"popfirst", "poplast"})
    /\ LET op == thr[t].call.op
           tup == thr[t].loc.tup
       IN IF Key(tup.item) \in DOMAIN items
          THEN /\ items' = Decr(items, Key(tup.item))
               /\ Exit(t, Call(op, "", "none", <<Pair(tup)>>, NoItem, NoPri))
          ELSE items' = items /\ Exit(t, Raised(op, "KeyError"))
    /\ UNCHANGED <<data, start, call, maxlen, kept, snap>>

\* ----------------------------------------- the readers under the lock
\* What first, last, high, low and d[index] return or raise on the deque d.
ReadResult(c, d) ==
    IF c.op = "__getitem__"
    THEN IF IndexInRange(d, c.num)
         THEN Call(c.op, "", "none", <<Pair(d[DequeIndex(d, c.num)])>>, NoItem, NoPri)
         ELSE Raised(c.op, "IndexError")
    ELSE IF Len(d) = 0 THEN Raised(c.op, "IndexError")
    ELSE IF c.op = "first" THEN Call(c.op, "", "none", <<>>, Front(d).item, NoPri)
    ELSE IF c.op = "last" THEN Call(c.op, "", "none", <<>>, Back(d).item, NoPri)
    ELSE IF c.op = "high" THEN Call(c.op, "", "none", <<>>, NoItem, Front(d).pri)
    ELSE Call(c.op, "", "none", <<>>, NoItem, Back(d).pri)

\* The one statement of first, last, high, low and __getitem__.
ReadStep(t) ==
    /\ At(t, "body", Peeks \cup {"__getitem__"})
    /\ Exit(t, ReadResult(thr[t].call, data))
    /\ UNCHANGED <<data, items, start, call, maxlen, kept, snap>>

\* ------------------------------------------------------ clear, step by step
\* self.data.clear()
ClearStep(t) ==
    /\ At(t, "body", {"clear"})
    /\ data' = <<>>
    /\ Goto(t, "items", thr[t].loc)
    /\ UNCHANGED <<items, start, call, maxlen, kept, snap>>

\* self.items.clear()
ClearIndexStep(t) ==
    /\ At(t, "items", {"clear"})
    /\ items' = EmptyDict
    /\ Exit(t, Returned("clear", ""))
    /\ UNCHANGED <<data, start, call, maxlen, kept, snap>>

\* ----------------------------------------------------- remove, step by step
\* int(count), the lookup of the frequency and the set-up of the loop.
RemoveStart(t) ==
    /\ At(t, "body", {"remove"})
    /\ LET c == thr[t].call
           n == IF c.obj = "" THEN c.num ELSE IntValue(c.obj)
       IN IF c.obj # "" /\ IntError(c.obj) # "none"
          THEN Exit(t, Raised("remove", IntError(c.obj)))
          ELSE IF Key(c.item) \notin DOMAIN items
          THEN Exit(t, Call("remove", "absent", "none", <<>>, NoItem, NoPri))
          ELSE Goto(t, "loop",
                    [thr[t].loc EXCEPT !.item_freq = items[Key(c.item)],
                                       !.cnt = EffectiveCount(n, items[Key(c.item)]),
                                       !.counter = 0,
                                       !.i = Len(data),
                                       !.removed = <<>>])
    /\ UNCHANGED <<data, items, start, call, maxlen, kept, snap>>

\* One iteration of `for i in range(len(self.data))`: the entry at the back
\* is popped or the deque is rotated by one.  self.data[-1] on an empty deque
\* raises IndexError, which leaves the method.
RemoveLoopStep(t) ==
    /\ At(t, "loop", {"remove"})
    /\ thr[t].loc.i > 0
    /\ LET c == thr[t].call
           loc == thr[t].loc
       IN IF loc.cnt > loc.counter /\ Len(data) = 0
          THEN data' = data /\ Exit(t, Raised("remove", "IndexError"))
          ELSE IF Takes(loc.cnt, loc.counter, c.item, data)
          THEN /\ data' = SubSeq(data, 1, Len(data) - 1)
               /\ Goto(t, "loop",
                       [loc EXCEPT !.removed = Append(@, Pair(data[Len(data)])),
                                   !.counter = @ + 1,
                                   !.i = @ - 1])
          ELSE /\ data' = Rotate(data, 1)
               /\ Goto(t, "loop", [loc EXCEPT !.i = @ - 1])
    /\ UNCHANGED <<items, start, call, maxlen, kept, snap>>

\* After the loop: the index update and `return removed`.
RemoveIndexStep(t) ==
    /\ At(t, "loop", {"remove"})
    /\ thr[t].loc.i = 0
    /\ LET c == thr[t].call
           loc == thr[t].loc
       IN /\ items' = (IF Key(c.item) \in DOMAIN items
                       THEN RemoveIndex(items, Key(c.item), loc.item_freq, loc.cnt)
                       ELSE items)
          /\ Exit(t, IF Key(c.item) \in DOMAIN items
                     THEN Call("remove", "scan", "none", loc.removed, NoItem, NoPri)
                     ELSE Raised("remove", "KeyError"))
    /\ UNCHANGED <<data, start, call, maxlen, kept, snap>>

\* ------------------------------------------------ the methods without lock
\* What size, __len__, is_empty, count and __contains__ return on the deque d
\* and the index f: each is one read of len(self.data) or of self.items.
UnlockedResult(c, d, f) ==
    IF c.op \in {"size", "__len__"}
    THEN Call(c.op, "", "none", <<>>, NoItem, Len(d))
    ELSE IF c.op = "is_empty"
    THEN Call(c.op, "", "none", <<>>, IF Len(d) = 0 THEN "True" ELSE "False", NoPri)
    ELSE IF c.op = "count"
    THEN Call(c.op, "", "none", <<>>, NoItem, count(f, c.item))
    ELSE Call(c.op, "", "none", <<>>, IF contains(f, c.item) THEN "True" ELSE "False", NoPri)

\* Thread t calls size, __len__, is_empty, count or __contains__: the method
\* reads at once, whoever holds the lock.
ReadUnlocked(t) ==
    /\ thr[t].pc = "idle"
    /\ \E c \in UnlockedCalls :
          thr' = [thr EXCEPT ![t] = Thread("done", c, NoLoc, UnlockedResult(c, data, items))]
    /\ UNCHANGED <<data, items, start, call, lock, maxlen, kept, snap>>

\* The caller of thread t takes the result; the thread is ready to call again.
Return(t) ==
    /\ thr[t].pc = "done"
    /\ thr' = [thr EXCEPT ![t] = Idle]
    /\ UNCHANGED <<data, items, start, call, lock, maxlen, kept, snap>>

\* A step of thread t inside a method.
Step(t) ==
    \/ Acquire(t)
    \/ InsertStep(t)
    \/ SearchRotate(t)
    \/ SearchTest(t)
    \/ SearchReturn(t)
    \/ IndexStep(t)
    \/ AddStep(t)
    \/ PopStep(t)
    \/ PopIndexStep(t)
    \/ ReadStep(t)
    \/ ClearStep(t)
    \/ ClearIndexStep(t)
    \/ RemoveStart(t)
    \/ RemoveLoopStep(t)
    \/ RemoveIndexStep(t)

ThreadNext == \E t \in Threads : Invoke(t) \/ ReadUnlocked(t) \/ Step(t) \/ Return(t)

\* ============================================================== max_length
\* A DEPQ configured with max_length.  The DEPQ class under src/ has no such
\* parameter; src/run_performance_check.py reads it as self._maxlen and evicts
\* with self._poplast() at the end of its insert functions.  The rest follows
\* the description of insert, addfirst, addlast and of the eviction.
\* The priorities of the entries d holds, as a bag.
PriBag(d) == [p \in Priorities |-> Cardinality({j \in 1 .. Len(d) : d[j].pri = p})]

EmptyBag == [p \in Priorities |-> 0]

BagSize(b) == LET RECURSIVE Sum(_)
                  Sum(S) == IF S = {} THEN 0
                            ELSE LET q == CHOOSE q \in S : TRUE
                                 IN b[q] + Sum(S \ {q})
              IN Sum(Priorities)

\* A variant of Exceeds that lets one entry too many stay.
ExceedsByTwo(d, k) == k # NoMaxLen /\ k + 1 < Len(d)

\* `if maxlen is not None and maxlen < len(self_data)`
Exceeds(d, k) == k # NoMaxLen /\ k < Len(d)

\* self._poplast() when the bound is exceeded: the pop-from-back logic
\* without the lock, on the deque d and the index f.
Evict(d, f, k) ==
    IF Exceeds(d, k)
    THEN LET key == Key(d[Len(d)].item) IN
         [data |-> Without(d, PopRightIndex(d)),
          items |-> IF key \in DOMAIN f THEN Decr(f, key) ELSE f,
          err |-> IF key \in DOMAIN f THEN "none" ELSE "KeyError"]
    ELSE [data |-> d, items |-> f, err |-> "none"]

\* What a bounded call leaves: the deque and the index after the eviction,
\* and the call's end.
Bounded(op, path, d, f) ==
    LET o == Evict(d, f, maxlen) IN
    /\ data' = o.data
    /\ items' = o.items
    /\ \A k \in DOMAIN items' : items'[k] <= MaxFreq
    /\ call' = (IF o.err = "none" THEN Returned(op, path) ELSE Raised(op, o.err))
    /\ UNCHANGED <<start, maxlen, lock, thr, snap>>

\* insert(item, priority) with max_length: insert, then the eviction.
insertBounded(item, priority) ==
    LET e == Entry(item, priority) IN
    /\ BagSize(kept) < MaxKept
    /\ kept' = [kept EXCEPT ![priority] = @ + 1]
    /\ IF Len(data) = 0
       THEN Bounded("insert", "empty", <<e>>, SetOne(items, Key(item)))
       ELSE Bounded("insert", InsertPath(data, priority),
                    InsertData(data, e), Incr(items, Key(item)))

\* addfirst(item, new_priority) with max_length: addfirst, then the eviction.
addfirstBounded(item, new_priority) ==
    IF Len(data) > 0 /\ AddfirstViolates(new_priority, data)
    THEN /\ call' = Raised("addfirst", "ValueError")
         /\ UNCHANGED <<data, items, start, maxlen, lock, thr, kept, snap>>
    ELSE /\ BagSize(kept) < MaxKept
         /\ kept' = [kept EXCEPT ![new_priority] = @ + 1]
         /\ Bounded("addfirst", "given",
                    AppendLeft(data, Entry(item, new_priority)),
                    Incr(items, Key(item)))

\* addlast(item, new_priority) with max_length: a silent no-op when the bound
\* is reached already, addlast otherwise.
addlastBounded(item, new_priority) ==
    IF Len(data) >= maxlen
    THEN /\ call' = Returned("addlast", "full")
         /\ UNCHANGED <<data, items, start, maxlen, lock, thr, kept, snap>>
    ELSE IF Len(data) > 0 /\ AddlastViolates(new_priority, data)
    THEN /\ call' = Raised("addlast", "ValueError")
         /\ UNCHANGED <<data, items, start, maxlen, lock, thr, kept, snap>>
    ELSE /\ BagSize(kept) < MaxKept
         /\ kept' = [kept EXCEPT ![new_priority] = @ + 1]
         /\ Bounded("addlast", "given",
                    AppendRight(data, Entry(item, new_priority)),
                    Incr(items, Key(item)))

\* The explicit removals leave max_length alone; kept loses what they take.
KeptAfterPop(k) ==
    IF Len(data) = 0 THEN kept ELSE [kept EXCEPT ![data[k].pri] = @ - 1]

popfirstBounded ==
    /\ Pop("popfirst", PopLeftIndex(data))
    /\ kept' = KeptAfterPop(PopLeftIndex(data))
    /\ UNCHANGED <<start, maxlen, lock, thr, snap>>

poplastBounded ==
    /\ Pop("poplast", PopRightIndex(data))
    /\ kept' = KeptAfterPop(PopRightIndex(data))
    /\ UNCHANGED <<start, maxlen, lock, thr, snap>>

removeBounded(item, cnt) ==
    LET o == RemoveOutcome(data, items, item, cnt) IN
    /\ data' = o.data
    /\ items' = o.items
    /\ call' = Call("remove", o.path, "none", o.removed, NoItem, NoPri)
    /\ kept' = [p \in Priorities |->
                   kept[p] - Cardinality({j \in 1 .. Len(o.removed) : o.removed[j][2] = p})]
    /\ UNCHANGED <<start, maxlen, lock, thr, snap>>

clearBounded ==
    /\ data' = <<>>
    /\ items' = EmptyDict
    /\ call' = Returned("clear", "")
    /\ kept' = [p \in Priorities |-> kept[p] - PriBag(data)[p]]
    /\ UNCHANGED <<start, maxlen, lock, thr, snap>>

\* ================================================= insert on longer DEPQs
\* One caller inserts into a sorted DEPQ of up to MaxSearchLen entries, step
\* by step as above.  The entries that are there hold the str items 'e1',
\* 'e2', ... by position, so that each of them can be told from the others.
Caller == 1

SearchPriorities == 0 .. MaxSearchPri

Tag(j) == "'e" \o ToString(j) \o "'"

\* The sorted DEPQs insert is called on.
SortedData ==
    UNION {{[j \in 1 .. n |-> Entry(Tag(j), ps[j])] :
               ps \in {q \in [1 .. n -> SearchPriorities] :
                          \A j \in 1 .. n - 1 : q[j] >= q[j + 1]}} :
           n \in 0 .. MaxSearchLen}

\* The frequency index of d.
IndexOf(d) ==
    [k \in {Key(d[j].item) : j \in 1 .. Len(d)} |->
        Cardinality({j \in 1 .. Len(d) : Key(d[j].item) = k})]

\* The caller calls insert(None, priority) and reaches `with self.lock`.
InvokeInsert(t, priority) ==
    /\ thr[t].pc = "idle"
    /\ Len(data) <= MaxSearchLen
    /\ thr' = [thr EXCEPT ![t] =
                   Thread("wait", TCall("insert", ThreadItem, priority, ""),
                          NoLoc, NoRet)]
    /\ UNCHANGED <<data, items, start, call, lock, maxlen, kept, snap>>

\* The total amount the `while True` loop and the return rotation rotate:
\* the sum of the amounts passed to self.data.rotate, signs dropped.
RECURSIVE Rotated(_, _, _, _, _)
Rotated(d, e, mid, shift, length) ==
    LET left == e.pri <= d[1].pri
        d1 == IF left THEN Rotate(d, -mid) ELSE Rotate(d, mid)
        s1 == IF left THEN shift + mid ELSE shift - mid
    IN IF Found(d1, e.pri)
       THEN mid + (IF s1 > length \div 2 THEN (length % s1) + 1
                   ELSE IF s1 < 0 THEN 0 - s1 ELSE s1)
       ELSE mid + Rotated(d1, e, NextMid(mid), s1, length)

\* ============================================ calls made inside the lock
\* One caller runs the methods one after the other, among them the methods
\* built on another method (elim, d[item] = priority, repr) and the methods
\* that call repr() or str() of a stored item inside `with self.lock`.  The
\* items are None, the DEPQ d itself (hashable; its repr is d.__repr__()) and
\* the list [d] (unhashable; its repr calls d.__repr__()).
SelfItems == {"None", "d", "[d]"}

\* repr(item) and str(item) call d.__repr__().
HoldsDepq(item) == item \in {"d", "[d]"}

\* self.items[item] raises TypeError and the method goes on with repr(item).
NeedsRepr(item) == item = "[d]"

\* The methods that call another method and take no lock themselves.
Wrappers == {"elim", "__setitem__", "__repr__"}

SelfCalls ==
    {TCall(op, i, p, "") : op \in {"insert", "__setitem__"},
                           i \in SelfItems, p \in Priorities}
    \cup {TCall("elim", i, 0, "") : i \in SelfItems}
    \cup {TCall("remove", i, 1, "") : i \in SelfItems}
    \cup {TCall(op, NoItem, 0, "") : op \in {"popfirst", "__str__", "__repr__"}}

\* The call a wrapper makes: self.remove(item, -1), self.insert(item,
\* priority), self.__str__().
InnerCall(c) ==
    IF c.op = "elim" THEN TCall("remove", c.item, -1, "")
    ELSE IF c.op = "__setitem__" THEN TCall("insert", c.item, c.num, "")
    ELSE TCall("__str__", NoItem, 0, "")

\* The caller calls a method: a wrapper is entered, any other method reaches
\* its `with self.lock`.
InvokeSelf(t) ==
    /\ thr[t].pc = "idle"
    /\ \E c \in SelfCalls :
          /\ c.op \in {"insert", "__setitem__"} => Len(data) < MaxLen
          /\ thr' = [thr EXCEPT ![t] =
                        Thread(IF c.op \in Wrappers THEN "call" ELSE "wait",
                               c, NoLoc, NoRet)]
    /\ UNCHANGED <<data, items, start, call, lock, maxlen, kept, snap>>

\* The one statement of elim, __setitem__ and __repr__: the call of the other
\* method, which reaches its `with self.lock`.
Delegate(t) ==
    /\ thr[t].pc = "call"
    /\ thr' = [thr EXCEPT ![t] = Thread("wait", InnerCall(@.call), NoLoc, NoRet)]
    /\ UNCHANGED <<data, items, start, call, lock, maxlen, kept, snap>>

\* repr() or str() of an item that holds d, called inside `with self.lock`:
\* d.__repr__() calls d.__str__(), which reaches `with self.lock` while the
\* thread holds the lock.
Reenter(t) ==
    /\ thr' = [thr EXCEPT ![t] =
                  Thread("wait", TCall("__str__", NoItem, 0, ""), @.loc, NoRet)]
    /\ UNCHANGED lock

\* The body of insert: the entry goes into the deque, then the index is
\* brought up to date, with repr(item) after the TypeError of an unhashable
\* item.
InsertBodySelf(t) ==
    /\ At(t, "body", {"insert"})
    /\ LET c == thr[t].call
           e == Entry(c.item, c.num)
       IN /\ data' = (IF Len(data) = 0 THEN <<e>> ELSE InsertData(data, e))
          /\ IF NeedsRepr(c.item)
             THEN items' = items /\ Reenter(t)
             ELSE /\ items' = (IF Len(data) = 0 THEN SetOne(items, Key(c.item))
                                                ELSE Incr(items, Key(c.item)))
                  /\ Exit(t, Returned("insert", InsertPath(data, c.num)))
    /\ UNCHANGED <<start, call, maxlen, kept, snap>>

\* The body of remove: the lookup self.items[item], with repr(item) after
\* the TypeError of an unhashable item, then the scan and the index update.
RemoveBodySelf(t) ==
    /\ At(t, "body", {"remove"})
    /\ LET c == thr[t].call
           o == RemoveOutcome(data, items, c.item, c.num)
       IN IF NeedsRepr(c.item)
          THEN UNCHANGED <<data, items>> /\ Reenter(t)
          ELSE /\ data' = o.data
               /\ items' = o.items
               /\ Exit(t, Call("remove", o.path, "none", o.removed, NoItem, NoPri))
    /\ UNCHANGED <<start, call, maxlen, kept, snap>>

\* The body of __str__: ', '.join(str(item) for item in self.data), where
\* str of a tuple takes the repr of its members.
StrBody(t) ==
    /\ At(t, "body", {"__str__"})
    /\ IF \E j \in 1 .. Len(data) : HoldsDepq(data[j].item)
       THEN Reenter(t)
       ELSE Exit(t, Returned("__str__", ""))
    /\ UNCHANGED <<data, items, start, call, maxlen, kept, snap>>

\* ========================================================= held snapshots
\* A caller keeps what to_json() or __getstate__() returned while the DEPQ
\* is used further.  self.__dict__.copy() is a shallow copy: the dict it
\* returns holds the objects the attributes hold.  A member of the snapshot
\* is either an object of its own, with the value it got at export, or the
\* live object of the DEPQ; data and items are the values at export.
Snapshot(op, d, f, dataIsLive, itemsIsLive) ==
    [op |-> op, data |-> d, items |-> f,
     dataIsLive |-> dataIsLive, itemsIsLive |-> itemsIsLive]

NoSnap == Snapshot("-", <<>>, EmptyDict, FALSE, FALSE)

\* What the caller reads in the snapshot now.
SnapData == IF snap.dataIsLive THEN data ELSE snap.data

SnapItems == IF snap.itemsIsLive THEN items ELSE snap.items

\* s = d.to_json(): state['data'] = list(state['data']) is a new list; the
\* other members are those of self.__dict__.
to_jsonHeld ==
    /\ snap = NoSnap
    /\ snap' = Snapshot("to_json", data, items, FALSE, TRUE)
    /\ call' = Call("to_json", "", "none", <<State(data, items, start)>>, NoItem, NoPri)
    /\ UNCHANGED <<data, items, start, lock, thr, maxlen, kept>>

\* s = d.__getstate__(): every member is that of self.__dict__.
getstateHeld ==
    /\ snap = NoSnap
    /\ snap' = Snapshot("__getstate__", data, items, TRUE, TRUE)
    /\ call' = Call("__getstate__", "", "none", <<State(data, items, start)>>,
                    NoItem, NoPri)
    /\ UNCHANGED <<data, items, start, lock, thr, maxlen, kept>>

\* ============================================================ FIFO / LIFO
\* The DEPQ used as a queue or as a stack: entries are added without a
\* priority, by addlast only or by addfirst only while the DEPQ holds
\* entries, and taken with popfirst.  kept lists what was added and not
\* popped yet, oldest first, with the method that added it.
Added(op, item) == [op |-> op, item |-> item]

\* The method the entries in the DEPQ were added with allows op.
Discipline(op) == \A j \in 1 .. Len(kept) : kept[j].op = op

\* addlast(item) in the FIFO use.
addlastQueue(item) ==
    LET e == Entry(item, AddlastDefault(data, start)) IN
    /\ Discipline("addlast")
    /\ Len(data) < MaxLen
    /\ data' = AppendRight(data, e)
    /\ items' = Incr(items, Key(item))
    /\ call' = Returned("addlast", "default")
    /\ kept' = Append(kept, Added("addlast", item))
    /\ UNCHANGED <<start, lock, thr, maxlen, snap>>

\* addfirst(item) in the LIFO use.
addfirstQueue(item) ==
    LET e == Entry(item, AddfirstDefault(data, start)) IN
    /\ Discipline("addfirst")
    /\ Len(data) < MaxLen
    /\ data' = AppendLeft(data, e)
    /\ items' = Incr(items, Key(item))
    /\ call' = Returned("addfirst", "default")
    /\ kept' = Append(kept, Added("addfirst", item))
    /\ UNCHANGED <<start, lock, thr, maxlen, snap>>

\* popfirst() in either use: of the entries added and not popped, the oldest
\* is due in the FIFO use and the newest in the LIFO use.
popfirstQueue ==
    /\ Pop("popfirst", PopLeftIndex(data))
    /\ kept' = (IF Len(kept) = 0 THEN kept
                ELSE IF kept[1].op = "addlast" THEN Tail(kept)
                ELSE SubSeq(kept, 1, Len(kept) - 1))
    /\ UNCHANGED <<start, lock, thr, maxlen, snap>>

\* ------------------------------------------------------------------- spec
Init ==
    /\ data = <<>>
    /\ items = EmptyDict
    /\ start \in Priorities
    /\ call = Returned("__init__", "")
    /\ lock = Free
    /\ thr = [t \in Threads |-> Idle]
    /\ maxlen = NoMaxLen
    /\ kept = EmptyBag
    /\ snap = NoSnap

Next ==
    \/ \E i \in Items, p \in Priorities : insert(i, p)
    \/ \E i \in Items : addfirstNone(i)
    \/ \E i \in Items, p \in Priorities : addfirst(i, p)
    \/ \E i \in Items : addlastNone(i)
    \/ \E i \in Items, p \in Priorities : addlast(i, p)
    \/ popfirst
    \/ poplast
    \/ first
    \/ last
    \/ high
    \/ low
    \/ clear
    \/ \E i \in Items, c \in Counts : remove(i, c)
    \/ \E i \in Items, c \in CountObjects : removeNonInt(i, c)
    \/ \E i \in Items : elim(i)
    \/ \E index \in Indices : getitem(index)
    \/ \E i \in Items, p \in Priorities : setitem(i, p)
    \/ \E index \in Indices : delitem(index)
    \/ to_json
    \/ from_json
    \/ getstate
    \/ setstate

Spec == Init /\ [][Next]_vars

\* A DEPQ constructed with max_length.
InitBounded ==
    /\ data = <<>>
    /\ items = EmptyDict
    /\ start \in Priorities
    /\ call = Returned("__init__", "")
    /\ lock = Free
    /\ thr = [t \in Threads |-> Idle]
    /\ maxlen \in 1 .. MaxLength
    /\ kept = EmptyBag
    /\ snap = NoSnap

NextBounded ==
    \/ \E i \in Items, p \in Priorities : insertBounded(i, p)
    \/ \E i \in Items, p \in Priorities : addfirstBounded(i, p)
    \/ \E i \in Items, p \in Priorities : addlastBounded(i, p)
    \/ popfirstBounded
    \/ poplastBounded
    \/ \E i \in Items, c \in {-1, 1} : removeBounded(i, c)
    \/ clearBounded

SpecBounded == InitBounded /\ [][NextBounded]_vars

\* A sorted DEPQ of up to MaxSearchLen entries and one caller of insert.
InitInsert ==
    /\ data \in SortedData
    /\ items = IndexOf(data)
    /\ start = 0
    /\ call = Returned("__init__", "")
    /\ lock = Free
    /\ thr = [t \in Threads |-> Idle]
    /\ maxlen = NoMaxLen
    /\ kept = EmptyBag
    /\ snap = NoSnap

NextInsert ==
    \/ \E p \in SearchPriorities : InvokeInsert(Caller, p)
    \/ Acquire(Caller)
    \/ InsertStep(Caller)
    \/ SearchRotate(Caller)
    \/ SearchTest(Caller)
    \/ SearchReturn(Caller)
    \/ IndexStep(Caller)
    \/ Return(Caller)

SpecInsert == InitInsert /\ [][NextInsert]_vars

\* The caller keeps running: a step of insert that can be taken is taken.
FairSpecInsert ==
    /\ SpecInsert
    /\ WF_vars(Acquire(Caller))
    /\ WF_vars(InsertStep(Caller))
    /\ WF_vars(SearchRotate(Caller))
    /\ WF_vars(SearchTest(Caller))
    /\ WF_vars(SearchReturn(Caller))
    /\ WF_vars(IndexStep(Caller))

\* A DEPQ that is used on while a caller holds a snapshot of it.
NextSnapshot ==
    \/ to_jsonHeld
    \/ getstateHeld
    \/ \E p \in Priorities : insert(ThreadItem, p)
    \/ \E p \in Priorities : addfirst(ThreadItem, p)
    \/ \E p \in Priorities : addlast(ThreadItem, p)
    \/ popfirst
    \/ poplast
    \/ \E c \in {-1, 1} : remove(ThreadItem, c)
    \/ clear

SpecSnapshot == Init /\ [][NextSnapshot]_vars

\* One caller and the calls its methods make.
NextReentry ==
    \/ InvokeSelf(Caller)
    \/ Delegate(Caller)
    \/ Acquire(Caller)
    \/ InsertBodySelf(Caller)
    \/ RemoveBodySelf(Caller)
    \/ PopStep(Caller)
    \/ PopIndexStep(Caller)
    \/ StrBody(Caller)
    \/ Return(Caller)

SpecReentry == Init /\ [][NextReentry]_vars

\* A DEPQ used as a FIFO or as a LIFO.
InitQueue ==
    /\ data = <<>>
    /\ items = EmptyDict
    /\ start \in Priorities
    /\ call = Returned("__init__", "")
    /\ lock = Free
    /\ thr = [t \in Threads |-> Idle]
    /\ maxlen = NoMaxLen
    /\ kept = <<>>
    /\ snap = NoSnap

NextQueue ==
    \/ \E i \in Items : addlastQueue(i)
    \/ \E i \in Items : addfirstQueue(i)
    \/ popfirstQueue

SpecQueue == InitQueue /\ [][NextQueue]_vars

\* The DEPQ under the calls of NumThreads threads.
SpecThreads == Init /\ [][ThreadNext]_vars

\* The scheduling the thread claims assume: a thread inside a method keeps
\* running (weak fairness of its steps), and a thread that waits for the lock
\* gets it if the lock is free again and again (strong fairness of Acquire).
FairSpecThreads ==
    /\ SpecThreads
    /\ \A t \in Threads : WF_vars(Step(t)) /\ SF_vars(Acquire(t))

\* =================================================================== claims
\* ------------------------------------------------------- reference notions
\* d is sorted by descending priority.
Sorted(d) == \A i, j \in 1 .. Len(d) : i < j => d[i].pri >= d[j].pri

\* The highest and the lowest priority held by a non-empty d.
MaxPriOf(d) == CHOOSE m \in {d[j].pri : j \in 1 .. Len(d)} :
                   \A j \in 1 .. Len(d) : d[j].pri <= m

MinPriOf(d) == CHOOSE m \in {d[j].pri : j \in 1 .. Len(d)} :
                   \A j \in 1 .. Len(d) : d[j].pri >= m

\* The number of entries of d whose item maps to the key k.
EntriesOfKey(d, k) == Cardinality({j \in 1 .. Len(d) : Key(d[j].item) = k})

\* The number of entries of d that hold item.
EntriesOfItem(d, item) == Cardinality({j \in 1 .. Len(d) : d[j].item = item})

\* a is b with some entries taken out: the entries of a are entries of b in
\* the same relative order.
RECURSIVE IsSubseq(_, _)
IsSubseq(a, b) ==
    IF Len(a) = 0 THEN TRUE
    ELSE IF Len(b) = 0 THEN FALSE
    ELSE IF Head(a) = Head(b) THEN IsSubseq(Tail(a), Tail(b))
    ELSE IsSubseq(a, Tail(b))

\* new is old with one entry added, the old entries in their old order, and
\* the added entry after every entry of its priority.
AddedAfterEquals(old, new) ==
    \E k \in 1 .. Len(new) :
        /\ Without(new, k) = old
        /\ \A j \in 1 .. Len(new) : (j # k /\ new[j].pri = new[k].pri) => j < k

\* new is old with one entry added at index 0.
AddedAtFront(old, new) == Len(new) = Len(old) + 1 /\ Tail(new) = old


\* ----------------------------------------------------------------------- C1
\* C1: sortedness.  After every completed operation of any sequence of
\* insert, addfirst, addlast, popfirst, poplast, remove, elim and clear from
\* the empty DEPQ, for all indices i < j the priority at index i is >= the
\* priority at index j.
C1_Sortedness == Sorted(data)

\* An insert that took the rotating search has just completed.
C1_Witness ==
    /\ call.op = "insert" /\ call.path = "search"
    /\ Len(data) = 3 /\ data[1].pri > data[3].pri

\* ----------------------------------------------------------------------- C2
\* C2: frequency consistency.  After every completed operation, for every
\* item x count(x) equals the number of entries whose item maps to x's key,
\* and the frequency index holds no key with value 0 and no key without a
\* matching entry.
C2_FrequencyConsistency ==
    /\ \A x \in Items : count(items, x) = EntriesOfKey(data, Key(x))
    /\ \A k \in DOMAIN items : items[k] # 0 /\ EntriesOfKey(data, k) > 0

\* ----------------------------------------------------------------------- C3
\* C3: stable insert.  An entry added by insert sits after every entry of its
\* priority that is already there, and insert, popfirst, poplast and remove
\* keep the entries they leave in their relative order: so of two entries
\* inserted at one priority the earlier stays before the later for as long
\* as both are in the DEPQ.
C3_StableInsert ==
    [][/\ call'.op = "insert" => AddedAfterEquals(data, data')
       /\ call'.op \in {"popfirst", "poplast", "remove"} => IsSubseq(data', data)]_vars

\* B has just been inserted by the rotating search behind A, which has B's
\* priority.
C3_Witness ==
    /\ call.op = "insert" /\ call.path = "search"
    /\ Len(data) = 3
    /\ data[1].pri = data[2].pri /\ data[1].item # data[2].item

\* ----------------------------------------------------------------------- C4
\* C4 as claimed: tie order over all insertion operations.  Whichever of
\* insert, addfirst and addlast adds an entry, it comes after every entry of
\* its priority that is already there, and no operation reorders entries.
C4_TieOrderAllAdds ==
    [][/\ (call'.op \in Adds /\ call'.err = "none") => AddedAfterEquals(data, data')
       /\ call'.op \in Removals => IsSubseq(data', data)]_vars

\* C4 as amended: an entry added by insert or addlast comes after every entry
\* of its priority that is already there; an entry added by addfirst comes at
\* index 0, before every entry of its priority; no operation reorders the
\* entries it leaves.
C4_TieOrderAmended ==
    [][/\ (call'.op \in {"insert", "addlast"} /\ call'.err = "none")
            => AddedAfterEquals(data, data')
       /\ (call'.op = "addfirst" /\ call'.err = "none") => AddedAtFront(data, data')
       /\ call'.op \in Removals => IsSubseq(data', data)]_vars

\* addfirst has just put an entry in front of an entry of the same priority.
C4_Witness ==
    /\ call.op = "addfirst" /\ call.err = "none"
    /\ Len(data) >= 2
    /\ data[1].pri = data[2].pri /\ data[1].item # data[2].item

\* ----------------------------------------------------------------------- C5
\* C5: extremes.  On a non-empty DEPQ high() and first() return the priority
\* and the item of an entry of maximal priority, low() and last() those of an
\* entry of minimal priority; popfirst() returns and removes exactly the entry
\* at index 0 and poplast() the entry at index n-1, the length shrinking by
\* one.
C5_Extremes ==
    [][Len(data) > 0 =>
        /\ call'.op \in Peeks => (call'.err = "none" /\ data' = data)
        /\ call'.op = "high" => call'.pri = MaxPriOf(data)
        /\ call'.op = "low" => call'.pri = MinPriOf(data)
        /\ call'.op = "first" =>
              \E j \in 1 .. Len(data) :
                  data[j].item = call'.val /\ data[j].pri = MaxPriOf(data)
        /\ call'.op = "last" =>
              \E j \in 1 .. Len(data) :
                  data[j].item = call'.val /\ data[j].pri = MinPriOf(data)
        /\ call'.op = "popfirst" =>
              /\ call'.err = "none"
              /\ call'.ret = <<Pair(data[1])>>
              /\ data' = Tail(data)
        /\ call'.op = "poplast" =>
              /\ call'.err = "none"
              /\ call'.ret = <<Pair(data[Len(data)])>>
              /\ data' = SubSeq(data, 1, Len(data) - 1)]_vars

\* ----------------------------------------------------------------------- C6
\* C6: on an empty DEPQ each of first, last, high, low, popfirst and poplast
\* fails with IndexError and leaves the sequence, the frequency index and
\* start unchanged.
C6_EmptyFails ==
    [][(Len(data) = 0 /\ call'.op \in Peeks \cup {"popfirst", "poplast"}) =>
        /\ call'.err = "IndexError"
        /\ data' = data /\ items' = items /\ start' = start]_vars

\* popfirst has just failed on an empty DEPQ.
C6_Witness == call.op = "popfirst" /\ call.err = "IndexError" /\ Len(data) = 0

\* ----------------------------------------------------------------------- C7
\* C7: on a non-empty DEPQ addfirst(item, p) with p < high() and
\* addlast(item, p) with p > low() fail with ValueError, and the sequence and
\* the frequency index are as before the call.
C7_OrderViolation ==
    [][\A i \in Items, p \in Priorities :
        /\ (Len(data) > 0 /\ p < MaxPriOf(data) /\ addfirst(i, p)) =>
              (call'.err = "ValueError" /\ data' = data /\ items' = items)
        /\ (Len(data) > 0 /\ p > MinPriOf(data) /\ addlast(i, p)) =>
              (call'.err = "ValueError" /\ data' = data /\ items' = items)]_vars

\* addfirst has just failed on a DEPQ that holds entries.
C7_Witness == call.op = "addfirst" /\ call.err = "ValueError" /\ Len(data) > 0

\* ----------------------------------------------------------------------- C8
\* C8: default priorities.  addfirst(item) stores item at index 0 with the
\* current highest priority, addlast(item) at index n with the current lowest
\* priority; on an empty DEPQ both store the entry with priority start when
\* no priority is given and with the given priority when one is given.
C8_DefaultPriorities ==
    [][\A i \in Items :
        /\ addfirstNone(i) =>
              data' = <<Entry(i, IF Len(data) = 0 THEN start ELSE MaxPriOf(data))>> \o data
        /\ addlastNone(i) =>
              data' = Append(data, Entry(i, IF Len(data) = 0 THEN start ELSE MinPriOf(data)))
        /\ \A p \in Priorities :
              (Len(data) = 0 /\ (addfirst(i, p) \/ addlast(i, p))) =>
                  data' = <<Entry(i, p)>>]_vars

\* addfirst(item) has just stored an entry in front of a lower entry.
C8_Witness ==
    /\ call.op = "addfirst" /\ call.path = "default"
    /\ Len(data) = 3 /\ data[1].pri = data[2].pri /\ data[2].pri > data[3].pri

\* ----------------------------------------------------------------------- C9
\* The entries remove takes when it is to take m entries that hold item: the
\* m matching entries nearest the lowest-priority end, as indices of d.
Taken(d, item, m) ==
    {j \in 1 .. Len(d) :
        /\ d[j].item = item
        /\ Cardinality({l \in 1 .. Len(d) : l > j /\ d[l].item = item}) < m}

\* The entries of d at the indices in S, in the order of d.
RECURSIVE Pick(_, _)
Pick(d, S) ==
    IF Len(d) = 0 THEN <<>>
    ELSE Pick(SubSeq(d, 1, Len(d) - 1), S) \o
         (IF Len(d) \in S THEN <<d[Len(d)]>> ELSE <<>>)

Reverse(s) == [i \in 1 .. Len(s) |-> s[Len(s) + 1 - i]]

Min2(a, b) == IF a <= b THEN a ELSE b

\* C9: remove(item, count) with count >= 1 on a DEPQ holding f occurrences of
\* item removes exactly min(count, f) entries, the matching entries nearest
\* the lowest-priority end, and returns exactly the removed (item, priority)
\* pairs in the order removed, which is non-decreasing priority.
C9_RemoveLowest ==
    [][\A i \in Items, c \in 1 .. MaxCount :
        remove(i, c) =>
            LET m == Min2(c, EntriesOfItem(data, i))
                T == Taken(data, i, m)
            IN /\ Len(call'.ret) = m
               /\ call'.ret = Pairs(Reverse(Pick(data, T)))
               /\ data' = Pick(data, (1 .. Len(data)) \ T)
               /\ \A a, b \in 1 .. Len(call'.ret) :
                      a < b => call'.ret[a][2] <= call'.ret[b][2]]_vars

\* ---------------------------------------------------------------------- C10
\* C10: elim(item) and remove(item, -1) are equivalent: elim returns the list
\* and leaves the state that remove(item, -1) returns and leaves, and in that
\* state no entry holds item, count(item) is 0 and every entry of every
\* other item is still there.
C10_ElimRemovesAll ==
    [][\A i \in Items :
        elim(i) =>
            LET o == RemoveOutcome(data, items, i, -1) IN
            /\ data' = o.data /\ items' = o.items /\ call'.ret = o.removed
            /\ EntriesOfItem(data', i) = 0
            /\ count(items', i) = 0
            /\ data' = Pick(data, {j \in 1 .. Len(data) : data[j].item # i})]_vars

\* ---------------------------------------------------------------------- C11
\* The counts remove documents: -1 (every occurrence) and the counts from 0.
ValidCounts == -1 .. MaxCount

\* C11: remove(item, 0) on any DEPQ, and remove(item, count) with any valid
\* integer count when no entry holds item, return an empty list without error
\* and leave the sequence (content and order) and the frequency index
\* unchanged.
C11_RemoveNoOp ==
    [][\A i \in Items, c \in ValidCounts :
        (remove(i, c) /\ (c = 0 \/ EntriesOfItem(data, i) = 0)) =>
            /\ call'.err = "none" /\ call'.ret = <<>>
            /\ data' = data /\ items' = items]_vars

\* ---------------------------------------------------------------------- C12
\* The counts that cannot be interpreted as an integer.
NotIntegers == {"'a'", "None"}

C19_MembershipAndCount ==
    \A x \in Items :
        /\ contains(items, x) <=> count(items, x) > 0
        /\ count(items, x) > 0 <=> EntriesOfItem(data, x) > 0

\* ---------------------------------------------------------------------- C20
\* C20 as claimed: d[i] returns the (item, priority) entry at logical position
\* i (0 = highest priority) for every i in [0, len), and fails with IndexError
\* for every index outside [0, len), leaving the state unchanged.
C20_IndexedRead ==
    [][\A i \in Indices :
        getitem(i) =>
            /\ (0 <= i /\ i < Len(data)) =>
                  (call'.err = "none" /\ call'.ret = <<Pair(data[i + 1])>>)
            /\ ~(0 <= i /\ i < Len(data)) => call'.err = "IndexError"
            /\ data' = data /\ items' = items /\ start' = start]_vars

\* C20 as amended: d[i] returns the entry at logical position i for every i
\* in [0, len) and the entry at position len + i for every i in [-len, 0);
\* it fails with IndexError for every index outside [-len, len); the state is
\* unchanged in every case.
C20_IndexedReadAmended ==
    [][\A i \in Indices :
        getitem(i) =>
            /\ (0 <= i /\ i < Len(data)) =>
                  (call'.err = "none" /\ call'.ret = <<Pair(data[i + 1])>>)
            /\ (0 - Len(data) <= i /\ i < 0) =>
                  (call'.err = "none" /\ call'.ret = <<Pair(data[Len(data) + i + 1])>>)
            /\ (i < 0 - Len(data) \/ i >= Len(data)) => call'.err = "IndexError"
            /\ data' = data /\ items' = items /\ start' = start]_vars

\* d[i] has just returned the lowest entry of a DEPQ whose ends differ.
C20_Witness ==
    /\ call.op = "__getitem__" /\ call.err = "none"
    /\ Len(data) = 3 /\ data[1] # data[3]
    /\ call.ret = <<Pair(data[3])>>

\* ---------------------------------------------------------------------- C17
\* C17: round trip.  For every reachable DEPQ d holding any mix of items,
\* importing its exported snapshot, both through __getstate__/__setstate__
\* and through to_json -> JSON text -> from_json, yields a DEPQ with the same
\* entry sequence in the same order, the same frequency map (count(x) agrees
\* with d for every item x) and the same start.
C17_RoundTrip ==
    [][call'.op \in {"from_json", "__setstate__"} =>
        LET c == call'.ret[1] IN
        /\ c.data = data
        /\ \A x \in Items : count(c.items, x) = count(items, x)
        /\ c.start = start]_vars

\* ---------------------------------------------------------------------- C13
\* What a call does when it runs alone on the state s, from the first to the
\* last statement: the state it leaves and what it returns or raises.
AloneResult(c, s) ==
    LET d == s.data
        f == s.items
        e == Entry(c.item, c.num)
        same == [state |-> s, ret |-> NoRet]
    IN IF c.op = "insert"
       THEN [state |-> State(IF Len(d) = 0 THEN <<e>> ELSE InsertData(d, e),
                             IF Len(d) = 0 THEN SetOne(f, Key(c.item))
                                           ELSE Incr(f, Key(c.item)),
                             s.start),
             ret |-> Returned("insert", "")]
       ELSE IF c.op \in {"addfirst", "addlast"}
       THEN IF Len(d) > 0 /\ (IF c.op = "addfirst" THEN c.num < d[1].pri
                                                   ELSE c.num > d[Len(d)].pri)
            THEN [same EXCEPT !.ret = Raised(c.op, "ValueError")]
            ELSE [state |-> State(IF c.op = "addfirst" THEN <<e>> \o d ELSE Append(d, e),
                                  Incr(f, Key(c.item)), s.start),
                  ret |-> Returned(c.op, "")]
       ELSE IF c.op \in {"popfirst", "poplast"}
       THEN IF Len(d) = 0
            THEN [same EXCEPT !.ret = Raised(c.op, "IndexError")]
            ELSE LET k == IF c.op = "popfirst" THEN 1 ELSE Len(d) IN
                 [state |-> State(Without(d, k), Decr(f, Key(d[k].item)), s.start),
                  ret |-> Call(c.op, "", "none", <<Pair(d[k])>>, NoItem, NoPri)]
       ELSE IF c.op = "clear"
       THEN [state |-> State(<<>>, EmptyDict, s.start), ret |-> Returned("clear", "")]
       ELSE IF c.op = "remove"
       THEN IF c.obj # "" /\ IntError(c.obj) # "none"
            THEN [same EXCEPT !.ret = Raised("remove", IntError(c.obj))]
            ELSE LET o == RemoveOutcome(d, f, c.item,
                                        IF c.obj = "" THEN c.num ELSE IntValue(c.obj))
                 IN [state |-> State(o.data, o.items, s.start),
                     ret |-> Call("remove", o.path, "none", o.removed, NoItem, NoPri)]
       ELSE [same EXCEPT !.ret = ReadResult(c, d)]

\* Thread t is inside `with self.lock`.
InLock(t) == thr[t].pc \notin {"idle", "wait", "done"}

\* Thread t leaves its locked method in this step.
Leaves(t) == InLock(t) /\ thr'[t].pc = "done"

\* C13: mutual exclusion.  With NumThreads threads calling insert, addfirst,
\* addlast, popfirst, poplast, remove, clear, first, last, high, low and
\* indexed read on one DEPQ, at most one thread is inside a lock-protected
\* section at any time, and it holds the lock; so every such call leaves the
\* state and returns the value that the call run alone leaves and returns on
\* the state it found when it took the lock (a reader never returns a value
\* of a partially rotated or partially updated sequence), and the state after
\* all calls equals that of the calls run one after the other in the order
\* they took the lock.
C13_MutualExclusion ==
    [][/\ Cardinality({t \in Threads : InLock(t)}) <= 1
       /\ \A t \in Threads : InLock(t) => lock = t
       /\ \A t \in Threads :
             Leaves(t) =>
                 LET r == AloneResult(thr[t].call, thr[t].loc.pre) IN
                 /\ State(data', items', start') = r.state
                 /\ thr'[t].ret = r.ret
       /\ \A t \in Threads :
             Acquire(t) => \A u \in Threads : ~InLock(u)]_vars

\* One thread is in the middle of insert's rotating search, the deque
\* rotated away from its order, while the other waits for the lock to read.
C13_Witness ==
    \E t, u \in Threads :
        /\ thr[t].pc = "test" /\ ~Sorted(data)
        /\ thr[u].pc = "wait" /\ thr[u].call.op \in Peeks \cup {"__getitem__"}

\* ---------------------------------------------------------------------- C14
\* The states between two completed operations that a read made now can
\* stand for: the state as it is when no call holds the lock, else the state
\* the call in progress found and the state it leaves.
Completed ==
    IF lock = Free
    THEN {State(data, items, start)}
    ELSE {thr[lock].loc.pre, AloneResult(thr[lock].call, thr[lock].loc.pre).state}

\* C14: every public operation, including size, len, is_empty, count and the
\* membership test, runs as a single critical section under the lock, so a
\* thread calling any of them concurrently with another thread's insert,
\* remove, pop or clear never observes an intermediate state: what it returns
\* is what it returns in a state between two completed operations.
C14_ReadsUnderLock ==
    [][\A t \in Threads :
        ReadUnlocked(t) =>
            \E s \in Completed :
                thr'[t].ret = UnlockedResult(thr'[t].call, s.data, s.items)]_vars

\* ---------------------------------------------------------------------- C15
\* C15: the lock is released on every exit path.  Whenever no thread is
\* executing inside a DEPQ operation the lock is free, and a thread that has
\* left its operation, by a result or by an error (empty pop or peek, order
\* violation in addfirst or addlast, invalid count in remove, index out of
\* range), does not hold it: a failed operation never keeps later operations
\* from taking the lock.
C15_LockReleased ==
    /\ (\A t \in Threads : ~InLock(t)) => lock = Free
    /\ \A t \in Threads : lock = t => InLock(t)

\* One thread's call has ended with an error, and the other thread has taken
\* the lock after it.
C15_Witness ==
    \E t, u \in Threads :
        /\ thr[t].pc = "done"
        /\ thr[t].ret.err \in {"IndexError", "ValueError"}
        /\ thr[u].pc = "body" /\ lock = u

TopK(b, k) ==
    [p \in Priorities |->
        LET above == BagSize([q \in Priorities |-> IF q > p THEN b[q] ELSE 0])
        IN IF k - above <= 0 THEN 0 ELSE Min2(b[p], k - above)]

\* C18 as claimed: bound.  When max_length = k is configured, after every
\* completed mutating operation len(d) <= k, enforced by evicting the
\* lowest-priority entry when an insertion would exceed the bound, so the
\* retained entries are the k highest-priority ones among those inserted and
\* not explicitly removed.
C18_Bound ==
    /\ Len(data) <= maxlen
    /\ PriBag(data) = TopK(kept, maxlen)

\* C18 as amended: when max_length = k is configured, after every completed
\* mutating operation len(d) <= k, enforced by evicting the lowest-priority
\* entry when an insertion would exceed the bound, so after every insertion
\* that adds its entry (one neither refused with ValueError nor dropped by
\* addlast on a full DEPQ) the retained entries are the k highest-priority
\* ones among the entries retained before it and the inserted one, and no
\* other operation adds an entry (for instance with k = 2, inserting (A,1),
\* (B,2), (C,3) leaves [(C,3), (B,2)]).
C18_BoundAmended ==
    [][/\ Len(data') <= maxlen
       /\ \A i \in Items, p \in Priorities :
             (/\ insertBounded(i, p) \/ addfirstBounded(i, p) \/ addlastBounded(i, p)
              /\ call'.err # "ValueError"
              /\ call'.path # "full") =>
                 PriBag(data') = TopK([PriBag(data) EXCEPT ![p] = @ + 1], maxlen)
       /\ (call'.op \notin Adds \/ call'.err = "ValueError" \/ call'.path = "full")
             => IsSubseq(data', data)]_vars

\* With max_length = 2, a third insert has just evicted the lowest entry.
C18_Witness ==
    /\ maxlen = 2 /\ call.op = "insert" /\ call.err = "none"
    /\ Len(data) = 2 /\ BagSize(kept) = 3
    /\ data[2].pri = 1 /\ kept[0] = 1

\* ---------------------------------------------------------------------- C21
\* C21: deletion by index is unsupported.  `del d[i]` fails with
\* NotImplementedError for every index i and every state, empty or not, and
\* never changes the sequence or the frequency index.
C21_DelItemUnsupported ==
    [][call'.op = "__delitem__" =>
          /\ call'.err = "NotImplementedError"
          /\ data' = data
          /\ items' = items]_vars

\* del d[i] has just failed on a DEPQ that holds entries.
C21_Witness ==
    /\ call.op = "__delitem__" /\ call.err = "NotImplementedError"
    /\ Len(data) > 0

\* ---------------------------------------------------------------------- C30
\* C30: `d[item] = priority` is an alias of insert.  From every state it
\* produces exactly the state insert(item, priority) produces, adding one new
\* entry and never modifying, replacing or removing an existing entry of the
\* same item.
C30_SetItemIsInsert ==
    [][\A i \in Items, p \in Priorities :
          setitem(i, p) =>
              /\ State(data', items', start') =
                     AloneResult(TCall("insert", i, p, ""),
                                 State(data, items, start)).state
              /\ Len(data') = Len(data) + 1
              /\ IsSubseq(data, data')
              /\ EntriesOfItem(data', i) = EntriesOfItem(data, i) + 1]_vars

\* d[item] = priority has just added a second entry of an item beside the
\* one that was there, at another priority.
C30_Witness ==
    /\ call.op = "__setitem__"
    /\ \E j, k \in 1 .. Len(data) :
          /\ j # k
          /\ data[j].item = data[k].item
          /\ data[j].pri # data[k].pri

\* ---------------------------------------------------------------------- C22
\* C22: FIFO / LIFO use.  When entries are only added with addlast without a
\* priority and only removed with popfirst, in any interleaving of adds and
\* pops, entries are returned in the order they were added; when they are
\* only added with addfirst without a priority and removed with popfirst,
\* each pop returns the most recently added entry still present.
C22_FifoLifo ==
    [][(popfirstQueue /\ Len(kept) > 0) =>
          /\ call'.err = "none"
          /\ Len(call'.ret) = 1
          /\ kept[1].op = "addlast" => call'.ret[1][1] = kept[1].item
          /\ kept[1].op = "addfirst" => call'.ret[1][1] = kept[Len(kept)].item
          /\ Len(data') = Len(kept')]_vars

\* popfirst has just returned one of three different entries added with
\* addlast; the two added after it are still there.
C22_Witness ==
    /\ call.op = "popfirst" /\ call.err = "none"
    /\ Len(kept) = 2
    /\ kept[1].op = "addlast"
    /\ kept[1].item # kept[2].item
    /\ call.ret[1][1] \notin {kept[1].item, kept[2].item}

\* ---------------------------------------------------------------------- C23
\* The naive reference insertion: e goes immediately after the last entry of
\* d whose priority is >= e's, at index 0 if there is none.
NaiveInsert(d, e) ==
    LET k == Cardinality({j \in 1 .. Len(d) : d[j].pri >= e.pri})
    IN SubSeq(d, 1, k) \o <<e>> \o SubSeq(d, k + 1, Len(d))

\* The caller's insert stands at pc: its entry and the DEPQ it found.
InsertAt(pcs) == thr[Caller].pc \in pcs /\ thr[Caller].call.op = "insert"

NewEntry == Entry(thr[Caller].call.item, thr[Caller].call.num)

Old == thr[Caller].loc.pre.data

\* C23: insert agrees with a naive reference insertion.  For every sorted
\* DEPQ of length n >= 0 and every priority p, the sequence after
\* insert(item, p) equals the old sequence with (item, p) placed immediately
\* after the last entry whose priority is >= p (at index 0 if none), every
\* old entry at its old relative position; the final rotation restores the
\* original alignment, so index 0 and index n are again the true maximum and
\* minimum.
C23_NaiveReference ==
    InsertAt({"index", "set"}) =>
        /\ Sorted(Old)
        /\ data = NaiveInsert(Old, NewEntry)
        /\ data[1].pri = MaxPriOf(data)
        /\ data[Len(data)].pri = MinPriOf(data)

\* The rotating search has put the new entry into the middle of a DEPQ of
\* MaxSearchLen entries, between entries of its own priority and lower ones,
\* after a return rotation by length % shift + 1.
C23_Witness ==
    /\ InsertAt({"index"})
    /\ Len(Old) = MaxSearchLen
    /\ thr[Caller].loc.shift > thr[Caller].loc.length \div 2
    /\ \E k \in 2 .. Len(data) - 1 :
          /\ data[k] = NewEntry
          /\ data[k - 1].pri = NewEntry.pri
          /\ data[k + 1].pri < NewEntry.pri

C28_ShiftRange ==
    LET shift == thr[Caller].loc.shift
        n == thr[Caller].loc.length
    IN /\ InsertAt({"test", "return"}) => 1 <= shift /\ shift <= n - 1
       /\ InsertAt({"return"}) =>
             /\ shift > n \div 2 =>
                   /\ (n % shift) + 1 = n + 1 - shift
                   /\ n % shift # 0
             /\ data = <<NewEntry>> \o Rotate(Old, 0 - shift)
             /\ ReturnRotate(data, shift, n) =
                    SubSeq(Old, 1, shift) \o <<NewEntry>> \o SubSeq(Old, shift + 1, n)

\* The search has ended with shift beyond half the length.
C28_Witness ==
    /\ InsertAt({"return"})
    /\ thr[Caller].loc.shift > thr[Caller].loc.length \div 2
    /\ thr[Caller].loc.length = MaxSearchLen

\* ---------------------------------------------------------------------- C29
\* C29: rotation work of insert.  For an insert into a DEPQ of length n that
\* takes the rotating-search path, the total amount rotated R (the absolute
\* rotation amounts of all search steps plus the return rotation) satisfies
\* n <= R <= 3n/2.
C29_RotationWork ==
    (InsertAt({"search"}) /\ thr[Caller].loc.shift = 0) =>
        LET n == Len(data)
            R == Rotated(data, NewEntry, n \div 2, 0, n)
        IN n <= R /\ 2 * R <= 3 * n

\* ---------------------------------------------------------------------- C25
\* C25: effect of insert on everything else.  insert(item, p) increases the
\* length by exactly 1 and the frequency count of item's key by exactly 1
\* (creating it at 1 if absent), on each of its four paths (empty, front,
\* back, rotating search), and leaves every other entry, the relative order
\* of the old entries, every other key's count, and start unchanged.
C25_InsertFrame ==
    [][\A i \in Items, p \in Priorities :
          insert(i, p) =>
              /\ Len(data') = Len(data) + 1
              /\ \E k \in 1 .. Len(data') :
                    data'[k] = Entry(i, p) /\ Without(data', k) = data
              /\ DOMAIN items' = DOMAIN items \cup {Key(i)}
              /\ items'[Key(i)] = (IF Key(i) \in DOMAIN items
                                   THEN items[Key(i)] + 1 ELSE 1)
              /\ \A k \in DOMAIN items \ {Key(i)} : items'[k] = items[k]
              /\ start' = start]_vars

\* ---------------------------------------------------------------------- C26
\* C26: effect of remove on everything else.  After remove(item, count)
\* returns, every entry that was not removed is still present exactly once,
\* the remaining entries are in the same relative order as before the call,
\* the sequence is back in its original alignment (index 0 holds the highest
\* priority), and the counts of all other items are unchanged.
C26_RemoveFrame ==
    [][\A i \in Items, c \in Counts :
          remove(i, c) =>
              /\ Len(data') + Len(call'.ret) = Len(data)
              /\ IsSubseq(data', data)
              /\ \A j \in 1 .. Len(call'.ret) : call'.ret[j][1] = i
              /\ Len(data') > 0 => data'[1].pri = MaxPriOf(data')
              /\ \A x \in Items \ {i} : count(items', x) = count(items, x)]_vars

\* ---------------------------------------------------------------------- C27
\* C27: for every integer count (positive, zero, -1 and other negative
\* values) and every present item, hashable or unhashable (including an
\* unhashable item whose repr equals a string item also stored),
\* remove(item, count) lowers the value stored for item's key in the
\* frequency index by exactly the number of entries it removed from the
\* sequence and returned, deleting the key only when no entry mapping to that
\* key remains.
C27_RemoveIndex ==
    [][\A i \in Items, c \in Counts :
          (remove(i, c) /\ EntriesOfItem(data, i) > 0 /\ Key(i) \in DOMAIN items) =>
              /\ count(items', i) = count(items, i) - Len(call'.ret)
              /\ Key(i) \notin DOMAIN items' => EntriesOfKey(data', Key(i)) = 0]_vars

\* ---------------------------------------------------------------------- C31
\* C31: an exported snapshot is a value independent of the live container.
\* After to_json() or __getstate__() returns, any later insert, addfirst,
\* addlast, pop, remove or clear on the DEPQ leaves both the snapshot's entry
\* list and the snapshot's frequency map exactly as they were at export time.
C31_SnapshotIndependent ==
    snap # NoSnap => (SnapData = snap.data /\ SnapItems = snap.items)

\* ---------------------------------------------------------------------- C32
\* C32: no self-deadlock on the non-reentrant lock.  No DEPQ operation
\* attempts to acquire the lock while the same thread already holds it; the
\* operations built on other operations (elim calling remove, d[item] = p
\* calling insert, repr calling str) make the inner call without holding the
\* lock, so a single thread executing any sequence of operations never
\* blocks.
C32_NoSelfDeadlock ==
    \A t \in Threads : ~(thr[t].pc = "wait" /\ lock = t)

====
